---------------------------- MODULE Spec2Model ----------------------------
(***************************************************************************)
(* A model of pokefier's main.py: the message classifier, the verification *)
(* flag, the species resolution pipeline, the administrative commands and  *)
(* the supervisor that runs one Autocatcher per token.                     *)
(*                                                                         *)
(* Text is a sequence of atoms (TLA+ strings standing for one character or *)
(* for a run of characters that is never split); str.lower(), the `in'     *)
(* substring test, int() and the f-string formatting of an int are computed*)
(* on these sequences.  Confidences are integer hundredths of a percent.   *)
(***************************************************************************)
EXTENDS Integers, Sequences, FiniteSets, TLC

(***************************************************************************)
(* Bounds of the model.                                                    *)
(***************************************************************************)
\* messages delivered to all sessions together
MaxMsgs == 4
\* candidates in one classification result
MaxCands == 2
\* tokens in one administrative command
MaxTokens == 3
\* administrative commands delivered when the commands run on their own
MaxCmds == 2
\* languages in a language list handed to the pipeline on its own
MaxLangs == 2

(***************************************************************************)
(* Text.                                                                   *)
(***************************************************************************)
LowerChar(c) ==
  CASE c = "P" -> "p" [] c = "R" -> "r" [] c = "B" -> "b" [] c = "M" -> "m"
    [] c = "E" -> "e" [] c = "F" -> "f" [] c = "G" -> "g" [] c = "W" -> "w"
    [] OTHER -> c

\* str.lower()
Lower(s) == [i \in DOMAIN s |-> LowerChar(s[i])]

\* needle in hay, for two str
Contains(needle, hay) ==
  \E i \in 0..(Len(hay) - Len(needle)) :
     SubSeq(hay, i + 1, i + Len(needle)) = needle

\* x in list
InList(x, list) == \E i \in DOMAIN list : list[i] = x

\* [y for y in list if y != x]
RECURSIVE Without(_, _)
Without(list, x) ==
  IF list = <<>> THEN <<>>
  ELSE IF Head(list) = x THEN Without(Tail(list), x)
       ELSE <<Head(list)>> \o Without(Tail(list), x)

Digits == <<"0", "1", "2", "3", "4", "5", "6", "7", "8", "9">>

IsDigit(c) == \E d \in DOMAIN Digits : Digits[d] = c

DigitValue(c) == (CHOOSE d \in DOMAIN Digits : Digits[d] = c) - 1

\* f"{id}" for a non-negative int
RECURSIVE ToStr(_)
ToStr(n) ==
  IF n < 10 THEN <<Digits[n + 1]>>
  ELSE ToStr(n \div 10) \o <<Digits[(n % 10) + 1]>>

\* int(s) raises ValueError unless s is an optional sign followed by digits
IntParses(s) ==
  LET body == IF s # <<>> /\ Head(s) \in {"+", "-"} THEN Tail(s) ELSE s
  IN  body # <<>> /\ \A i \in DOMAIN body : IsDigit(body[i])

RECURSIVE DigitsValue(_)
DigitsValue(s) ==
  IF s = <<>> THEN 0
  ELSE 10 * DigitsValue(SubSeq(s, 1, Len(s) - 1)) + DigitValue(s[Len(s)])

\* int(s), where it parses
IntOf(s) ==
  IF Head(s) = "-" THEN 0 - DigitsValue(Tail(s))
  ELSE IF Head(s) = "+" THEN DigitsValue(Tail(s))
  ELSE DigitsValue(s)

(***************************************************************************)
(* Configuration (main.py lines 16-20).                                    *)
(***************************************************************************)
POKETWO_ID == "716390085896962058"
owner_id == "69420"

\* the literal of the captcha link, before the account id
CaptchaUrl == "https://verify.poketwo.net/captcha/"

\* "wild pokémon has appeared".lower()
SpawnPhrase == Lower(<<"w", "ild pokémon has appeared">>)

\* score > 60.0, in hundredths
CONFIDENCE_THRESHOLD == 6000

valid_languages == <<<<"e", "nglish">>, <<"f", "rench">>, <<"g", "erman">>,
                     <<"j", "apanese">>>>

(***************************************************************************)
(* The sessions: one Autocatcher per token, each with its account id.      *)
(***************************************************************************)
Sessions == {"A", "B"}

\* bot.user.id
UserId == [s \in Sessions |-> IF s = "A" THEN 12 ELSE 123]

(***************************************************************************)
(* data.json, as load_pokemon_data returns it.                             *)
(***************************************************************************)
Alt(n, l) == [name |-> n, language |-> l]

pokemon_data ==
  << [name |-> <<"R", "aichu">>,
      altnames |-> << Alt(<<"R", "aichu">>, <<"E", "nglish">>),
                      Alt(<<"R", "aichu-fr">>, <<"F", "rench">>),
                      Alt(<<"R", "aichu-de">>, <<"g", "erman">>) >>],
     [name |-> <<"B", "ulbasaur">>,
      altnames |-> << Alt(<<"B", "isasam">>, <<"G", "erman">>),
                      Alt(<<"f", "ushigidane">>, <<"j", "apanese">>) >>],
     [name |-> <<"P", "ikachu">>,
      altnames |-> << >>] >>

Labels == {<<"R", "aichu">>, <<"B", "ulbasaur">>, <<"P", "ikachu">>,
           <<"M", "issingno">>}

(***************************************************************************)
(* The classifier (main.py lines 22-52).                                   *)
(***************************************************************************)
\* is_spawn_message raises AttributeError: the first embed has no title, so
\* .title.lower() is called on the empty value
is_spawn_message_raises(message, whitelisted_channels) ==
  /\ message.author = POKETWO_ID
  /\ InList(message.channel, whitelisted_channels)
  /\ Len(message.embeds) > 0
  /\ ~message.embeds[1].hasTitle

\* is_spawn_message without its test of the author
is_spawn_message_AnyAuthor(message, whitelisted_channels) ==
  /\ InList(message.channel, whitelisted_channels)
  /\ Len(message.embeds) > 0
  /\ message.embeds[1].hasTitle
  /\ Contains(SpawnPhrase, Lower(message.embeds[1].title))

is_spawn_message(message, whitelisted_channels) ==
  /\ message.author = POKETWO_ID
  /\ InList(message.channel, whitelisted_channels)
  /\ Len(message.embeds) > 0
  /\ message.embeds[1].hasTitle
  /\ Contains(SpawnPhrase, Lower(message.embeds[1].title))

\* is_captcha_message without its test of the channel
is_captcha_message_AnyChannel(message, whitelisted_channels, id) ==
  /\ message.author = POKETWO_ID
  /\ Contains(<<CaptchaUrl>> \o ToStr(id), message.content)

is_captcha_message(message, whitelisted_channels, id) ==
  /\ message.author = POKETWO_ID
  /\ InList(message.channel, whitelisted_channels)
  /\ Contains(<<CaptchaUrl>> \o ToStr(id), message.content)

(***************************************************************************)
(* The pipeline's pure steps (main.py lines 81-106 and 339-344).           *)
(***************************************************************************)
\* max(predicted_pokemons, key=lambda x: x[1]): a later candidate replaces
\* the best so far only when its score is greater
RECURSIVE MaxFrom(_, _)
MaxFrom(best, rest) ==
  IF rest = <<>> THEN best
  ELSE IF Head(rest)[2] > best[2] THEN MaxFrom(Head(rest), Tail(rest))
       ELSE MaxFrom(best, Tail(rest))

\* a max that lets a later candidate of equal score replace the best so far
RECURSIVE MaxFromLast(_, _)
MaxFromLast(best, rest) ==
  IF rest = <<>> THEN best
  ELSE IF Head(rest)[2] >= best[2] THEN MaxFromLast(Head(rest), Tail(rest))
       ELSE MaxFromLast(best, Tail(rest))

MaxByScore_LastWins(predicted_pokemons) ==
  MaxFromLast(Head(predicted_pokemons), Tail(predicted_pokemons))

MaxByScore(predicted_pokemons) ==
  MaxFrom(Head(predicted_pokemons), Tail(predicted_pokemons))

\* the threshold test with >= for >
ScorePasses_AtLeast(score) == score >= CONFIDENCE_THRESHOLD

\* score > 60.0
ScorePasses(score) == score > CONFIDENCE_THRESHOLD

\* next((p for p in self.pokemon_data if p["name"].lower() == name.lower()), None)
FindPokemon(name) ==
  LET hits == {i \in DOMAIN pokemon_data :
                 Lower(pokemon_data[i].name) = Lower(name)}
  IN  IF hits = {} THEN <<>>
      ELSE <<pokemon_data[CHOOSE i \in hits : \A j \in hits : i <= j]>>

\* the list comprehension without its test of the language
AlternateNames_AnyLanguage(pokemon, languages) ==
  {pokemon.altnames[i] : i \in DOMAIN pokemon.altnames}

\* the alternate_names list comprehension, as the set of its elements
AlternateNames(pokemon, languages) ==
  {pokemon.altnames[i] : i \in
     {k \in DOMAIN pokemon.altnames :
        InList(Lower(pokemon.altnames[k].language), languages)}}

\* get_alternate_pokemon_name: the set of the names it can return
\* (random.choice picks any element of alternate_names)
get_alternate_pokemon_name(name, languages) ==
  LET found == FindPokemon(name)
  IN  IF found # <<>> /\ AlternateNames(found[1], languages) # {}
      THEN {Lower(a.name) : a \in AlternateNames(found[1], languages)}
      ELSE {Lower(name)}


(***************************************************************************)
(* Messages the gateway can deliver.                                       *)
(***************************************************************************)
Channels == {1, 2}

Embed(hasTitle, title, hasImage) ==
  [hasTitle |-> hasTitle, title |-> title, hasImage |-> hasImage]

SpawnTitle == <<"A ", "W", "ild pokémon has appeared", "!">>
OtherTitle == <<"Congratulations!">>

EmbedChoices ==
  { <<>>,
    <<Embed(TRUE, SpawnTitle, TRUE)>>,
    <<Embed(TRUE, SpawnTitle, FALSE)>>,
    <<Embed(TRUE, OtherTitle, TRUE)>>,
    <<Embed(FALSE, <<>>, TRUE)>> }

\* a message text that holds the captcha link of account n
LinkTo(n) == <<"Whoa there. Please verify: ", CaptchaUrl>> \o ToStr(n)

LinkIds == {12, 123}

Contents == {<<>>} \cup {LinkTo(n) : n \in LinkIds}

GameMessages ==
  [author : {POKETWO_ID, owner_id}, channel : Channels, embeds : EmbedChoices,
   content : Contents, command : {"none"}, args : {<<>>}]

ChannelTokens == {<<"1">>, <<"2">>, <<"x">>}
LanguageTokens == {<<"e", "nglish">>, <<"E", "nglish">>, <<"f", "rench">>,
                   <<"k", "lingon">>}

Batches(tokens) == UNION {[1..n -> tokens] : n \in 0..MaxTokens}

\* a command message, as process_commands parses it: the command's name and
\* its arguments
ChannelCommands ==
  [author : {owner_id}, channel : {1}, embeds : {<<>>}, content : {<<>>},
   command : {"channeladd", "channelremove"}, args : Batches(ChannelTokens)]

LanguageCommands ==
  [author : {owner_id}, channel : {1}, embeds : {<<>>}, content : {<<>>},
   command : {"languageadd", "languageremove"}, args : Batches(LanguageTokens)]

\* the candidates offered: a tie of two labels at the threshold, one label
\* at and just above it, a label data.json does not know
Candidates ==
  { <<<<"P", "ikachu">>, 4500>>, <<<<"R", "aichu">>, 7230>>,
    <<<<"R", "aichu">>, 6000>>, <<<<"B", "ulbasaur">>, 6000>>,
    <<<<"B", "ulbasaur">>, 6001>>, <<<<"M", "issingno">>, 6001>> }

\* what predict_pokemon_from_url can return
Predictions == UNION {[1..n -> Candidates] : n \in 0..MaxCands}

(***************************************************************************)
(* State.                                                                  *)
(***************************************************************************)
\* the list objects: "G" is the module-level list (WHITELISTED_CHANNELS,
\* LANGUAGES), s is the list a rebinding in session s creates
Objects == {"G"} \cup Sessions

VARIABLES
  status,                \* the runner task of each session
  mainPc,                \* main(): at the gather, raised, exited
  channelLists,          \* the value of each channel list object
  whitelisted_channels,  \* bot.whitelisted_channels: the object it refers to
  languageLists,         \* the value of each language list object
  languages,             \* bot.languages: the object it refers to
  verified,              \* bot.verified, "UNSET" while the attribute is missing
  solving,               \* solve invocations not yet completed
  tasks,                 \* on_message handlers suspended at an await
  delivered,             \* messages delivered so far
  challenged,            \* history: the session has handled a challenge
  ev,                    \* history: what the last step did
  pipe                   \* lines 339-349 run on their own: inputs, results

vars == <<status, mainPc, channelLists, whitelisted_channels, languageLists,
          languages, verified, solving, tasks, delivered, challenged, ev, pipe>>

lists == <<channelLists, whitelisted_channels, languageLists, languages>>

Whitelist(s) == channelLists[whitelisted_channels[s]]
Languages(s) == languageLists[languages[s]]

\* what a message carries, for the history
SpawnShaped(m) ==
  Len(m.embeds) > 0 /\ m.embeds[1].hasTitle /\ m.embeds[1].title = SpawnTitle
NoImage(m) == SpawnShaped(m) /\ ~m.embeds[1].hasImage
LinkId(m) == IF \E n \in LinkIds : m.content = LinkTo(n)
             THEN CHOOSE n \in LinkIds : m.content = LinkTo(n) ELSE 0

\* the history record of a step that is no step of a message's handler
Other(kind, s) ==
  [kind |-> kind, id |-> 0, sess |-> s, command |-> "none", args |-> <<>>,
   poketwo |-> FALSE, inWl |-> FALSE, chan |-> 0, shaped |-> FALSE, noImage |-> FALSE, link |-> 0, st |-> verified[s],
   fresh |-> ~challenged[s], classify |-> FALSE, sel |-> <<>>,
   dispatch |-> <<>>, solve |-> FALSE, raised |-> FALSE, done |-> TRUE,
   invalid |-> <<>>, report |-> <<>>]

\* the history record of a step of handler id in session s: the facts about
\* its message and the state before the step, and no effect yet
Event(kind, id, s, m) ==
  [kind |-> kind, id |-> id, sess |-> s, command |-> m.command, args |-> <<>>,
   poketwo |-> m.author = POKETWO_ID,
   inWl |-> m.channel \in {Whitelist(s)[i] : i \in DOMAIN Whitelist(s)},
   chan |-> m.channel,
   shaped |-> SpawnShaped(m), noImage |-> NoImage(m), link |-> LinkId(m),
   st |-> verified[s], fresh |-> ~challenged[s],
   classify |-> FALSE, sel |-> <<>>, dispatch |-> <<>>, solve |-> FALSE,
   raised |-> FALSE, done |-> FALSE, invalid |-> <<>>, report |-> <<>>]

Task(id, s, pc, m, rest) ==
  [id |-> id, sess |-> s, pc |-> pc, message |-> m, rest |-> rest]

\* Autocatcher.__init__ for every token, and main() at its gather
Constructed ==
  /\ status = [s \in Sessions |-> "running"]
  /\ mainPc = "gather"
  /\ channelLists = [o \in Objects |-> <<>>]
  /\ whitelisted_channels = [s \in Sessions |-> "G"]
  /\ languageLists = [o \in Objects |-> IF o = "G" THEN <<<<"e", "nglish">>>> ELSE <<>>]
  /\ languages = [s \in Sessions |-> "G"]
  /\ verified = [s \in Sessions |-> "UNSET"]
  /\ solving = [s \in Sessions |-> 0]
  /\ tasks = {}
  /\ delivered = 0
  /\ challenged = [s \in Sessions |-> FALSE]
  /\ ev = Other("init", "A")

Pipe(pc, predicted, langs, selected, alt_name) ==
  [pc |-> pc, predicted |-> predicted, languages |-> langs,
   selected |-> selected, alt_name |-> alt_name]

Init ==
  /\ Constructed
  /\ pipe = Pipe("idle", <<>>, <<>>, <<>>, <<>>)


(***************************************************************************)
(* The administrative commands (main.py lines 140-264).  A command runs    *)
(* inside process_commands, which on_message awaits; it is suspended at    *)
(* every ctx.reply and at its final ctx.send.  A loop operator runs the    *)
(* for loop from the tokens left up to the next await and returns the      *)
(* state it leaves: the object bot's attribute refers to, the value of     *)
(* every list object, the lines added to `message', the token replied to,  *)
(* the tokens left and the await reached.                                  *)
(* A command's author is no bot, so is not POKETWO_ID: once the final      *)
(* ctx.send returns, lines 332 and 351 are False at their first conjunct   *)
(* and on_message returns without reading or writing any state.  The step  *)
(* that reaches the final ctx.send therefore ends the handler.             *)
(***************************************************************************)
LoopState(ref, heap) ==
  [ref |-> ref, heap |-> heap, report |-> <<>>, invalid |-> <<>>,
   rest |-> <<>>, pc |-> "cmdsend"]

\* channeladd's loop body without its test of membership
ChannelAddToken_NoTest(s, channel_id, st) ==
  [st EXCEPT !.heap[st.ref] = Append(@, channel_id),
             !.report = Append(@, <<"added", channel_id>>)]

\* one pass of channeladd's loop body for a token that parsed (lines 162-166)
ChannelAddToken(s, channel_id, st) ==
  IF InList(channel_id, st.heap[st.ref])
  THEN [st EXCEPT !.report = Append(@, <<"already", channel_id>>)]
  ELSE [st EXCEPT !.heap[st.ref] = Append(@, channel_id),
                  !.report = Append(@, <<"added", channel_id>>)]

\* one pass of channelremove's loop body for a token that parsed (lines 193-199)
ChannelRemoveToken(s, channel_id, st) ==
  IF InList(channel_id, st.heap[st.ref])
  THEN [st EXCEPT !.heap[s] = Without(st.heap[st.ref], channel_id),
                  !.ref = s,
                  !.report = Append(@, <<"removed", channel_id>>)]
  ELSE [st EXCEPT !.report = Append(@, <<"absent", channel_id>>)]

RECURSIVE ChannelLoop(_, _, _, _)
ChannelLoop(command, s, toks, st) ==
  IF toks = <<>> THEN st
  ELSE IF ~IntParses(Head(toks))
       THEN [st EXCEPT !.pc = "reply", !.rest = Tail(toks),
                       !.invalid = <<Head(toks)>>]
       ELSE ChannelLoop(command, s, Tail(toks),
              IF command = "channeladd"
              THEN ChannelAddToken(s, IntOf(Head(toks)), st)
              ELSE ChannelRemoveToken(s, IntOf(Head(toks)), st))

\* one pass of languageadd's loop body for a valid language (lines 225-229)
LanguageAddToken(s, language, st) ==
  IF InList(Lower(language), st.heap[st.ref])
  THEN [st EXCEPT !.report = Append(@, <<"already", language>>)]
  ELSE [st EXCEPT !.heap[st.ref] = Append(@, Lower(language)),
                  !.report = Append(@, <<"added", language>>)]

\* one pass of languageremove's loop body for a valid language (lines 255-261)
LanguageRemoveToken(s, language, st) ==
  IF InList(Lower(language), st.heap[st.ref])
  THEN [st EXCEPT !.heap[s] = Without(st.heap[st.ref], language),
                  !.ref = s,
                  !.report = Append(@, <<"removed", language>>)]
  ELSE [st EXCEPT !.report = Append(@, <<"absent", language>>)]

RECURSIVE LanguageLoop(_, _, _, _)
LanguageLoop(command, s, toks, st) ==
  IF toks = <<>> THEN st
  ELSE IF ~InList(Lower(Head(toks)), valid_languages)
       THEN [st EXCEPT !.pc = "reply", !.rest = Tail(toks),
                       !.invalid = <<Head(toks)>>]
       ELSE LanguageLoop(command, s, Tail(toks),
              IF command = "languageadd"
              THEN LanguageAddToken(s, Head(toks), st)
              ELSE LanguageRemoveToken(s, Head(toks), st))

IsChannelCommand(command) == command \in {"channeladd", "channelremove"}

\* the history record of a command's step that runs the loop from toks and
\* ends in loop state st
CommandEvent(kind, id, s, m, toks, st) ==
  [Event(kind, id, s, m) EXCEPT !.args = toks,
                                !.invalid = st.invalid,
                                !.report = st.report,
                                !.done = st.pc = "cmdsend"]

\* the handlers suspended after the step: this one too, at a ctx.reply
CommandTasks(id, s, m, st, other) ==
  IF st.pc = "reply"
  THEN other \cup {Task(id, s, "reply", [m EXCEPT !.args = <<>>], st.rest)}
  ELSE other

\* the command's loop in session s, from toks to its next await; other is
\* the set of the other suspended handlers
RunCommand(kind, s, id, m, toks, other) ==
  IF IsChannelCommand(m.command)
  THEN LET st == ChannelLoop(m.command, s, toks,
                   LoopState(whitelisted_channels[s], channelLists))
       IN  /\ channelLists' = st.heap
           /\ whitelisted_channels' = [whitelisted_channels EXCEPT ![s] = st.ref]
           /\ UNCHANGED <<languageLists, languages>>
           /\ tasks' = CommandTasks(id, s, m, st, other)
           /\ ev' = CommandEvent(kind, id, s, m, toks, st)
  ELSE LET st == LanguageLoop(m.command, s, toks,
                   LoopState(languages[s], languageLists))
       IN  /\ languageLists' = st.heap
           /\ languages' = [languages EXCEPT ![s] = st.ref]
           /\ UNCHANGED <<channelLists, whitelisted_channels>>
           /\ tasks' = CommandTasks(id, s, m, st, other)
           /\ ev' = CommandEvent(kind, id, s, m, toks, st)

\* `if not channel_ids: await ctx.reply(...); return' (lines 149-151 and alike)
RunUsage(kind, s, id, m, other) ==
  /\ tasks' = other
  /\ ev' = [Event(kind, id, s, m) EXCEPT !.report = <<<<"usage", m.command>>>>,
                                         !.done = TRUE]
  /\ UNCHANGED lists

(***************************************************************************)
(* on_message (main.py lines 321-353), cut at its awaits.                  *)
(***************************************************************************)
\* line 332 raises AttributeError: in is_spawn_message, or reading
\* bot.verified, which __init__ never sets
PipelineRaises(message, whitelisted, v) ==
  \/ is_spawn_message_raises(message, whitelisted)
  \/ is_spawn_message(message, whitelisted) /\ v = "UNSET"

\* line 332 without `and bot.verified'
PipelineStarts_IgnoresVerified(message, whitelisted, v) ==
  is_spawn_message(message, whitelisted)

\* `if is_spawn_message(message, bot.whitelisted_channels) and bot.verified'
PipelineStarts(message, whitelisted, v) ==
  is_spawn_message(message, whitelisted) /\ v = "VERIFIED"

\* `if is_captcha_message(message, bot.whitelisted_channels, bot.user.id)'
ChallengeSeen(message, whitelisted, id) ==
  is_captcha_message(message, whitelisted, id)

\* an exception leaves the handler: the library logs it, the session goes on
Raise(e) ==
  /\ ev' = [e EXCEPT !.done = TRUE, !.raised = TRUE]
  /\ UNCHANGED <<verified, solving, challenged>>

\* lines 351-353 with an else branch that sets the flag back
FromLine351_ResetsFlag(s, m, e) ==
  IF ChallengeSeen(m, Whitelist(s), UserId[s])
  THEN /\ verified' = [verified EXCEPT ![s] = "PENDING"]
       /\ solving' = [solving EXCEPT ![s] = @ + 1]
       /\ challenged' = [challenged EXCEPT ![s] = TRUE]
       /\ ev' = [e EXCEPT !.solve = TRUE, !.done = TRUE]
  ELSE /\ verified' = [verified EXCEPT ![s] =
                         IF @ = "PENDING" THEN "VERIFIED" ELSE @]
       /\ UNCHANGED <<solving, challenged>>
       /\ ev' = [e EXCEPT !.done = TRUE]

\* lines 351-353, and the handler returns
FromLine351(s, m, e) ==
  IF ChallengeSeen(m, Whitelist(s), UserId[s])
  THEN /\ verified' = [verified EXCEPT ![s] = "PENDING"]
       /\ solving' = [solving EXCEPT ![s] = @ + 1]
       /\ challenged' = [challenged EXCEPT ![s] = TRUE]
       /\ ev' = [e EXCEPT !.solve = TRUE, !.done = TRUE]
  ELSE /\ UNCHANGED <<verified, solving, challenged>>
       /\ ev' = [e EXCEPT !.done = TRUE]

\* lines 332-336: up to the await of predict_pokemon_from_url, or through
\* lines 351-353 when the pipeline does not start
FromLine332(s, id, m, e, other) ==
  IF PipelineRaises(m, Whitelist(s), verified[s])
  THEN Raise(e) /\ tasks' = other
  ELSE IF PipelineStarts(m, Whitelist(s), verified[s])
       THEN /\ tasks' = other \cup {Task(id, s, "predict", m, <<>>)}
            /\ ev' = [e EXCEPT !.classify = TRUE]
            /\ UNCHANGED <<verified, solving, challenged>>
       ELSE FromLine351(s, m, e) /\ tasks' = other

\* process_commands returns at once for a bot's message and for a message
\* that is no command
IsCommand(m) == m.command # "none" /\ m.author # POKETWO_ID

\* the name of a new handler: the least number no suspended handler has
FreeId == CHOOSE i \in 1..(Cardinality(tasks) + 1) :
            /\ \A t \in tasks : t.id # i
            /\ \A j \in 1..(i - 1) : \E t \in tasks : t.id = j

\* a message arrives in session s: on_message runs to its first await
OnMessage(s, m) ==
  /\ status[s] = "running"
  /\ delivered < MaxMsgs
  /\ delivered' = delivered + 1
  /\ IF IsCommand(m)
     THEN /\ IF m.args = <<>>
             THEN RunUsage("message", s, FreeId, m, tasks)
             ELSE RunCommand("message", s, FreeId, m, m.args, tasks)
          /\ UNCHANGED <<verified, solving, challenged>>
     ELSE /\ FromLine332(s, FreeId, m, Event("message", FreeId, s, m), tasks)
          /\ UNCHANGED lists
  /\ UNCHANGED <<status, mainPc, pipe>>

\* the ctx.reply for an invalid token returns: the loop goes on
ReplyReturns(t) ==
  /\ t.pc = "reply"
  /\ status[t.sess] = "running"
  /\ RunCommand("reply", t.sess, t.id, t.message, t.rest, tasks \ {t})
  /\ UNCHANGED <<verified, solving, challenged, delivered, status, mainPc, pipe>>

\* lines 337-349 with an empty prediction skipped instead of failing in max:
\* on_message goes on at line 351
AfterPredict_EmptyFallsThrough(s, id, m, p, t) ==
  IF p = <<>>
  THEN FromLine351(s, m, Event("predict", id, s, m)) /\ tasks' = tasks \ {t}
  ELSE LET predicted_pokemon == MaxByScore(p)
           e == [Event("predict", id, s, m) EXCEPT !.sel = <<predicted_pokemon>>]
       IN  IF ScorePasses(predicted_pokemon[2])
           THEN \E alt_name \in get_alternate_pokemon_name(predicted_pokemon[1],
                                                           Languages(s)) :
                  /\ ev' = [e EXCEPT !.dispatch =
                              <<[chan |-> m.channel, name |-> alt_name,
                                 languages |-> Languages(s)]>>]
                  /\ tasks' = (tasks \ {t}) \cup
                                {Task(id, s, "send", m, <<>>)}
                  /\ UNCHANGED <<verified, solving, challenged>>
           ELSE FromLine351(s, m, e) /\ tasks' = tasks \ {t}

\* lines 337-349 for the prediction p: select, compare, localize, send
\* (max of an empty list raises ValueError)
AfterPredict(s, id, m, p, t) ==
  IF p = <<>>
  THEN Raise(Event("predict", id, s, m)) /\ tasks' = tasks \ {t}
  ELSE LET predicted_pokemon == MaxByScore(p)
           name == predicted_pokemon[1]
           score == predicted_pokemon[2]
           e == [Event("predict", id, s, m) EXCEPT !.sel = <<predicted_pokemon>>]
       IN  IF ScorePasses(score)
           THEN \E alt_name \in get_alternate_pokemon_name(name, Languages(s)) :
                  /\ ev' = [e EXCEPT !.dispatch =
                              <<[chan |-> m.channel, name |-> alt_name,
                                 languages |-> Languages(s)]>>]
                  /\ tasks' = (tasks \ {t}) \cup
                                {Task(id, s, "send", m, <<>>)}
                  /\ UNCHANGED <<verified, solving, challenged>>
           ELSE FromLine351(s, m, e) /\ tasks' = tasks \ {t}

\* predict_pokemon_from_url returns p
PredictReturns(t, p) ==
  /\ t.pc = "predict"
  /\ status[t.sess] = "running"
  /\ AfterPredict(t.sess, t.id, t.message, p, t)
  /\ UNCHANGED <<lists, delivered, status, mainPc, pipe>>

\* predict_pokemon_from_url raises (the request fails or times out)
PredictRaises(t) ==
  /\ t.pc = "predict"
  /\ status[t.sess] = "running"
  /\ Raise(Event("predict", t.id, t.sess, t.message))
  /\ tasks' = tasks \ {t}
  /\ UNCHANGED <<lists, delivered, status, mainPc, pipe>>

\* message.channel.send returns and the handler classifies the image again
SendReturns_Reclassifies(t) ==
  /\ t.pc = "send"
  /\ status[t.sess] = "running"
  /\ ev' = [Event("send", t.id, t.sess, t.message) EXCEPT !.classify = TRUE]
  /\ tasks' = (tasks \ {t}) \cup {[t EXCEPT !.pc = "predict"]}
  /\ UNCHANGED <<verified, solving, challenged>>
  /\ UNCHANGED <<lists, delivered, status, mainPc, pipe>>

\* message.channel.send returns: on_message goes on at line 351
SendReturns(t) ==
  /\ t.pc = "send"
  /\ status[t.sess] = "running"
  /\ FromLine351(t.sess, t.message, Event("send", t.id, t.sess, t.message))
  /\ tasks' = tasks \ {t}
  /\ UNCHANGED <<lists, delivered, status, mainPc, pipe>>

\* message.channel.send raises (the request is refused)
SendRaises(t) ==
  /\ t.pc = "send"
  /\ status[t.sess] = "running"
  /\ Raise(Event("send", t.id, t.sess, t.message))
  /\ tasks' = tasks \ {t}
  /\ UNCHANGED <<lists, delivered, status, mainPc, pipe>>

(***************************************************************************)
(* The solver (captcha_solver.verify, called by solve_captcha).            *)
(***************************************************************************)
\* the solve procedure completes and sets the flag back
SolveCompletes(s) ==
  /\ status[s] = "running"
  /\ solving[s] > 0
  /\ solving' = [solving EXCEPT ![s] = @ - 1]
  /\ verified' = [verified EXCEPT ![s] = "VERIFIED"]
  /\ ev' = Other("solved", s)
  /\ UNCHANGED <<lists, status, mainPc, tasks, delivered, challenged, pipe>>

(***************************************************************************)
(* main() (lines 357-370): asyncio.gather over the runners, under          *)
(* asyncio.run.                                                            *)
(***************************************************************************)
\* bot.start raises in session s (login refused, transport lost): gather
\* hands the exception to main() and leaves the other runners alone
RunnerFails(s) ==
  /\ status[s] = "running"
  /\ status' = [status EXCEPT ![s] = "failed"]
  /\ mainPc' = IF mainPc = "gather" THEN "raised" ELSE mainPc
  /\ ev' = Other("fail", s)
  /\ UNCHANGED <<lists, verified, solving, tasks, delivered, challenged, pipe>>

\* the exception leaves main(): asyncio.run cancels every task still running
\* and closes the loop
MainExits ==
  /\ mainPc = "raised"
  /\ mainPc' = "exited"
  /\ status' = [s \in Sessions |->
                  IF status[s] = "running" THEN "cancelled" ELSE status[s]]
  /\ ev' = Other("exit", ev.sess)
  /\ UNCHANGED <<lists, verified, solving, tasks, delivered, challenged, pipe>>

\* the commands that add or remove one channel
OneChannel == {c \in ChannelCommands : Len(c.args) = 1 /\ IntParses(c.args[1])}

\* the steps of the handlers, for the messages msgs
Handlers(msgs) ==
  \/ \E s \in Sessions : \E m \in msgs : OnMessage(s, m)
  \/ \E t \in tasks : \E p \in Predictions : PredictReturns(t, p)
  \/ \E t \in tasks : PredictRaises(t)
  \/ \E t \in tasks : SendReturns(t)
  \/ \E t \in tasks : SendRaises(t)
  \/ \E s \in Sessions : SolveCompletes(s)

Next == Handlers(GameMessages \cup OneChannel)

Spec == Init /\ [][Next]_vars

(***************************************************************************)
(* The sessions under the supervisor: the handlers, for a few messages,    *)
(* and the runners' failures.                                              *)
(***************************************************************************)
SupervisorMessages ==
  {m \in GameMessages \cup OneChannel :
     /\ m.channel = 1
     /\ \/ m.command = "channeladd" /\ m.args = <<<<"1">>>>
        \/ /\ m.command = "none"
           /\ m.author = POKETWO_ID
           /\ \/ m.embeds = <<>> /\ m.content # <<>>
              \/ m.embeds = <<Embed(TRUE, SpawnTitle, TRUE)>> /\ m.content = <<>>}

NextSupervisor ==
  \/ Handlers(SupervisorMessages)
  \/ \E s \in Sessions : RunnerFails(s)
  \/ MainExits

SpecSupervisor == Init /\ [][NextSupervisor]_vars

(***************************************************************************)
(* The administrative commands on their own: every batch of tokens, in     *)
(* either session, with the handlers interleaved at their ctx.reply.       *)
(***************************************************************************)
AdminCommand(s, m) ==
  /\ delivered < MaxCmds
  /\ OnMessage(s, m)

NextAdmin ==
  \/ \E s \in Sessions : \E m \in ChannelCommands \cup LanguageCommands :
        AdminCommand(s, m)
  \/ \E t \in tasks : ReplyReturns(t)

SpecAdmin == Init /\ [][NextAdmin]_vars

(***************************************************************************)
(* Lines 339-349 on their own: for every prediction and language list,     *)
(* the selection, the threshold and the localization.                      *)
(***************************************************************************)
\* the lists languageadd and languageremove can leave in bot.languages
RECURSIVE NoRepeat(_)
NoRepeat(list) ==
  \/ list = <<>>
  \/ ~InList(Head(list), Tail(list)) /\ NoRepeat(Tail(list))

LanguageLists ==
  {l \in UNION {[1..n -> {valid_languages[i] : i \in DOMAIN valid_languages}] :
                  n \in 0..MaxLangs} : NoRepeat(l)}

InitPipeline ==
  /\ Constructed
  /\ pipe \in {Pipe("predicted", p, l, <<>>, <<>>) :
                 p \in Predictions \ {<<>>}, l \in LanguageLists}

\* lines 339-344
Select ==
  /\ pipe.pc = "predicted"
  /\ LET predicted_pokemon == MaxByScore(pipe.predicted)
     IN  pipe' = [pipe EXCEPT !.selected = <<predicted_pokemon>>,
                              !.pc = IF ScorePasses(predicted_pokemon[2])
                                     THEN "confident" ELSE "skipped"]
  /\ UNCHANGED <<status, mainPc, lists, verified, solving, tasks, delivered,
                 challenged, ev>>

\* lines 346-349
Localize ==
  /\ pipe.pc = "confident"
  /\ \E alt_name \in get_alternate_pokemon_name(pipe.selected[1][1],
                                                pipe.languages) :
        pipe' = [pipe EXCEPT !.alt_name = <<alt_name>>, !.pc = "sent"]
  /\ UNCHANGED <<status, mainPc, lists, verified, solving, tasks, delivered,
                 challenged, ev>>

NextPipeline == Select \/ Localize

SpecPipeline == InitPipeline /\ [][NextPipeline]_vars


(***************************************************************************)
(* The claims.  ev describes the last step: the facts about its message    *)
(* and the state before it (poketwo, inWl, chan, shaped, link, st, fresh), *)
(* and what the step did (classify, sel, dispatch, solve, raised, done).   *)
(***************************************************************************)
\* the last step is the arrival of a message that satisfies the Spawn
\* predicate for its session
SpawnArrived ==
  ev.kind = "message" /\ ev.poketwo /\ ev.inWl /\ ev.shaped

\* some suspended handler is the handler of the last step's message
StillHandled == \E t \in tasks : t.id = ev.id

\* C1: a spawn message handled while the session is PENDING starts no
\* classification call and makes no dispatch, and its handler ends in that
\* step, so nothing is left that could dispatch for it later; a dispatch is
\* only ever made by a suspended handler whose classification call returns.
C1_SpawnDroppedWhilePending ==
  /\ (SpawnArrived /\ ev.st = "PENDING") =>
        ~ev.classify /\ ev.dispatch = <<>> /\ ev.done /\ ~StillHandled
  /\ ev.dispatch # <<>> => ev.kind = "predict"

C1_Witness == SpawnArrived /\ ev.st = "PENDING" /\ ev.done

\* C2: every message that satisfies the Challenge predicate sets the state
\* to PENDING and triggers a solve invocation by the time its handler ends,
\* whatever the prior state and whatever else the message carries.
C2_ChallengeAlwaysSolved ==
  (ev.id # 0 /\ ev.done /\ ev.poketwo /\ ev.inWl /\ ev.link = UserId[ev.sess]) =>
     ev.solve /\ verified[ev.sess] = "PENDING"

\* C3: a session that has handled no challenge yet is VERIFIED: a
\* qualifying spawn arriving in it starts the pipeline.
C3_InitiallyVerified ==
  (SpawnArrived /\ ev.fresh) => ev.classify /\ ~ev.raised

\* C4: a step of one session leaves the whitelist and the language list of
\* every other session as they were.
C4_ListsPerSession ==
  [][\A b \in Sessions :
        ev'.sess # b =>
          Whitelist(b)' = Whitelist(b) /\ Languages(b)' = Languages(b)]_vars

\* C5: when a session's runner has failed, no other session is cancelled.
C5_FailureContained ==
  (\E f \in Sessions : status[f] = "failed") =>
     \A s \in Sessions : status[s] # "cancelled"

\* C6: a message whose channel is not in the session's whitelist when it is
\* classified causes no classification call, no dispatch, no solve
\* invocation and no change of the verification state, and its handler ends.
C6_OffWhitelistIgnored ==
  (ev.kind = "message" /\ ~ev.inWl) =>
     /\ ~ev.classify /\ ev.dispatch = <<>> /\ ~ev.solve
     /\ verified[ev.sess] = ev.st
     /\ ev.done /\ ~StillHandled

\* a message that matches both patterns, from the platform bot, in a channel
\* that was whitelisted (it is still in the module-level list) and that this
\* session has removed
C6_Witness ==
  /\ ev.kind = "message" /\ ~ev.inWl /\ ev.poketwo /\ ev.shaped
  /\ ev.link = UserId[ev.sess]
  /\ whitelisted_channels[ev.sess] = ev.sess
  /\ InList(ev.chan, channelLists["G"])

\* C7: a message whose author is not the platform bot causes no
\* classification call, no dispatch, no solve invocation and no change of
\* the verification state.
C7_OtherAuthorIgnored ==
  (ev.kind = "message" /\ ~ev.poketwo) =>
     /\ ~ev.classify /\ ev.dispatch = <<>> /\ ~ev.solve
     /\ verified[ev.sess] = ev.st
     /\ \A t \in tasks : t.id = ev.id => t.pc = "reply"

C7_Witness ==
  /\ ev.kind = "message" /\ ~ev.poketwo /\ ev.inWl /\ ev.shaped
  /\ ev.link = UserId[ev.sess] /\ ev.st = "VERIFIED"

\* C8: when the classification call of a spawn returns and a candidate is
\* selected, the catch command is dispatched if and only if the selected
\* confidence is greater than 60.00, and no error is raised either way.
C8_StrictThreshold ==
  (ev.kind = "predict" /\ ev.sel # <<>>) =>
     /\ ev.dispatch # <<>> <=> ev.sel[1][2] > 6000
     /\ ~ev.raised

C8_Witness ==
  ev.kind = "predict" /\ ev.sel # <<>> /\ ev.sel[1][2] = 6000
    /\ ev.dispatch = <<>> /\ ev.done

\* C9: the selected candidate is a candidate of maximum confidence, and the
\* first of the sequence that has it.
C9_FirstMaximum ==
  pipe.selected # <<>> =>
     \E k \in DOMAIN pipe.predicted :
        /\ pipe.predicted[k] = pipe.selected[1]
        /\ \A j \in DOMAIN pipe.predicted :
              pipe.predicted[j][2] <= pipe.predicted[k][2]
        /\ \A j \in 1..(k - 1) :
              pipe.predicted[j][2] < pipe.predicted[k][2]

\* two labels tie at the maximum
C9_Witness ==
  /\ pipe.selected # <<>>
  /\ Len(pipe.predicted) >= 2
  /\ pipe.predicted[1][2] = pipe.predicted[2][2]
  /\ pipe.predicted[1][1] # pipe.predicted[2][1]
  /\ pipe.selected[1] = pipe.predicted[1]

\* the alternate names of label in data.json whose language is in langs
MatchingNames(label, langs) ==
  {a \in UNION {{e.altnames[i] : i \in DOMAIN e.altnames} :
                  e \in {pokemon_data[i] : i \in DOMAIN pokemon_data}} :
     /\ \E i \in DOMAIN pokemon_data :
           /\ Lower(pokemon_data[i].name) = Lower(label)
           /\ InList(a, pokemon_data[i].altnames)
     /\ \E i \in DOMAIN langs : langs[i] = Lower(a.language)}

\* C10: the name handed to the dispatcher is the lower-cased name of an
\* alternate name of the label in a language of the list when there is one,
\* and the lower-cased label when there is none.
C10_Localized ==
  pipe.alt_name # <<>> =>
     LET label == pipe.selected[1][1]
         match == MatchingNames(label, pipe.languages)
     IN  IF match # {}
         THEN \E a \in match : pipe.alt_name[1] = Lower(a.name)
         ELSE pipe.alt_name[1] = Lower(label)

\* a label data.json knows, with no name in the only language of the list
C10_Witness ==
  /\ pipe.alt_name = <<Lower(<<"B", "ulbasaur">>)>>
  /\ pipe.selected[1][1] = <<"B", "ulbasaur">>
  /\ pipe.languages = <<<<"f", "rench">>>>

\* the last step belongs to a handler whose message started the pipeline:
\* it resumes that handler after the classification call or after the send
PipelineTriggered == ev.kind \in {"predict", "send"}

\* C11: no message triggers both the species resolution pipeline and the
\* challenge handler: a handler that started the pipeline for its message
\* never goes on to set PENDING and invoke the solver for it.
C11_NeverBoth == PipelineTriggered => ~ev.solve

\* C12: a spawn whose embed carries no image URL starts no classification
\* call (and so no dispatch).
C12_NoImageNoClassify == (SpawnArrived /\ ev.noImage) => ~ev.classify

\* the last step is a classification call that failed: it raised, or it
\* returned no candidate, so that none was selected
ClassificationFailed == ev.kind = "predict" /\ ev.sel = <<>>

\* C13: a failed classification call abandons its event: the step makes no
\* dispatch and starts no second call, the handler ends, the verification
\* state, the pending solves, the whitelists and the language lists are
\* unchanged, and the session's runner goes on running.
C13_FailureAbandoned ==
  [][ClassificationFailed' =>
        /\ ev'.dispatch = <<>> /\ ~ev'.classify /\ ~ev'.solve
        /\ \A t \in tasks' : t.id # ev'.id
        /\ UNCHANGED <<lists, verified, solving, status>>
        /\ status[ev'.sess] = "running"]_vars

\* the classification of a message that is also a challenge for its session
\* has failed
C13_Witness ==
  /\ ClassificationFailed /\ ev.inWl /\ ev.link = UserId[ev.sess]
  /\ verified[ev.sess] = "VERIFIED" /\ status[ev.sess] = "running"

\* C14: only the completion of the solve procedure takes a session from
\* PENDING to VERIFIED, and a handler starts a classification call only in a
\* session that is VERIFIED and stays so in that step: while the solver has
\* not completed, no spawn that arrives starts the pipeline.
C14_OnlySolverVerifies ==
  [][/\ \A s \in Sessions :
          (verified[s] = "PENDING" /\ verified'[s] = "VERIFIED") =>
             ev'.kind = "solved" /\ ev'.sess = s
     /\ ev'.classify =>
          verified[ev'.sess] = "VERIFIED" /\ verified'[ev'.sess] = "VERIFIED"]_vars

\* a classification call returns in a session that is PENDING, and the
\* session is still PENDING after the step
C14_Witness ==
  /\ ev.kind = "predict" /\ ev.sel # <<>> /\ ev.st = "PENDING"
  /\ verified[ev.sess] = "PENDING"

\* the handler of the last step is suspended at pc
SuspendedAt(pc) ==
  \E t \in tasks : t.id = ev.id /\ t.sess = ev.sess /\ t.pc = pc

\* the last step runs a command's loop over the tokens ev.args
CommandStep == ev.command # "none" /\ ev.args # <<>>

\* the tokens the handler of the last step has still to process
TokensLeft ==
  IF StillHandled THEN (CHOOSE t \in tasks : t.id = ev.id).rest ELSE <<>>

\* the token is one the command accepts
TokenValid(command, tok) ==
  IF command \in {"channeladd", "channelremove"}
  THEN IntParses(tok)
  ELSE \E i \in DOMAIN valid_languages : valid_languages[i] = Lower(tok)

\* the session's list is as the command leaves it for an accepted token
TokenApplied(command, s, tok) ==
  CASE command = "channeladd" -> InList(IntOf(tok), Whitelist(s))
    [] command = "channelremove" -> ~InList(IntOf(tok), Whitelist(s))
    [] command = "languageadd" -> InList(Lower(tok), Languages(s))
    [] command = "languageremove" -> ~InList(Lower(tok), Languages(s))

\* the per-token rule for the commands in cmds: of the tokens a step starts
\* from, every accepted token before the first invalid one is applied to the
\* session's list and gets its own line of the report; the invalid token
\* is reported on its own, and the handler is left waiting at that reply
\* with exactly the tokens after it still to process; without an invalid
\* token the command reaches its end.
PerTokenRule(cmds) ==
  (CommandStep /\ ev.command \in cmds) =>
     LET n == Len(ev.args) - Len(ev.invalid) - Len(TokensLeft)
     IN  /\ n >= 0 /\ Len(ev.report) = n
         /\ \A i \in 1..n :
               /\ TokenValid(ev.command, ev.args[i])
               /\ TokenApplied(ev.command, ev.sess, ev.args[i])
         /\ IF ev.invalid = <<>>
            THEN ev.done /\ ~StillHandled /\ n = Len(ev.args)
            ELSE /\ ev.invalid = <<ev.args[n + 1]>>
                 /\ ~TokenValid(ev.command, ev.args[n + 1])
                 /\ SuspendedAt("reply")
                 /\ TokensLeft = SubSeq(ev.args, n + 2, Len(ev.args))

\* C15: channeladd, channelremove, languageadd and languageremove process a
\* batch token by token: every accepted token is applied, every other token
\* is reported individually, and the tokens after it are still processed.
C15_BatchPerToken ==
  PerTokenRule({"channeladd", "channelremove", "languageadd", "languageremove"})

\* C16: a message whose verification link does not name the session's own
\* account id (or that holds no link) triggers no solve invocation in the
\* session and leaves its verification state unchanged.
C16_OwnIdOnly ==
  (ev.id # 0 /\ ev.link # UserId[ev.sess]) =>
     ~ev.solve /\ verified[ev.sess] = ev.st

\* C17: no catch command is dispatched in a session whose verification
\* state is PENDING when the dispatch is made.
C17_NoDispatchWhilePending == ev.dispatch # <<>> => ev.st # "PENDING"

\* C18: a handler makes at most one classification call, on the arrival of
\* a qualifying spawn, and at most one dispatch, when that call returns a
\* selected confidence above 60.00, to the channel of its message; after
\* the dispatch it only ends.
C18_OneCallOneDispatch ==
  /\ \A t1, t2 \in tasks : t1.id = t2.id => t1 = t2
  /\ \A t \in tasks : t.pc \in {"predict", "send"} =>
        t.message.author = POKETWO_ID /\ SpawnShaped(t.message)
  /\ ev.classify =>
        /\ ev.kind = "message" /\ ev.poketwo /\ ev.inWl /\ ev.shaped
        /\ SuspendedAt("predict")
  /\ ev.dispatch # <<>> =>
        /\ ev.kind = "predict" /\ ev.poketwo /\ ev.shaped
        /\ ev.sel # <<>> /\ ev.sel[1][2] > 6000
        /\ ev.dispatch[1].chan = ev.chan
        /\ SuspendedAt("send")
  /\ ev.kind = "send" => ~ev.classify /\ ev.dispatch = <<>> /\ ~StillHandled

\* a dispatch in a session that has two channels whitelisted
C18_Witness ==
  /\ ev.dispatch # <<>> /\ ev.dispatch[1].chan = ev.chan
  /\ Len(Whitelist(ev.sess)) = 2

\* languageremove <<t>> run in session s from the current state: the
\* language list it leaves
RemovedNow(s, t) ==
  LET removed == LanguageLoop("languageremove", s, <<t>>,
                              LoopState(languages[s], languageLists))
  IN  removed.heap[removed.ref]

\* C19: every language that languageremove reports as removed is no longer
\* in the session's list after the command's step, whatever the case of the
\* token; and after languageadd has added the language of a token,
\* languageremove of the same token takes that language out again.
C19_RemoveRemoves ==
  /\ (CommandStep /\ ev.command = "languageremove") =>
        \A i \in DOMAIN ev.report :
           ev.report[i][1] = "removed" =>
              ~InList(Lower(ev.report[i][2]), Languages(ev.sess))
  /\ (CommandStep /\ ev.command = "languageadd") =>
        \A i \in DOMAIN ev.report :
           ev.report[i][1] = "added" =>
              ~InList(Lower(ev.report[i][2]),
                      RemovedNow(ev.sess, ev.report[i][2]))

\* C20: in every state the commands can reach, no session's whitelist holds
\* a channel id twice, no session's language list holds a language twice,
\* and every element of a language list is one of the four recognized
\* lower-case languages.
C20_ListsWellFormed ==
  \A s \in Sessions :
     /\ NoRepeat(Whitelist(s))
     /\ NoRepeat(Languages(s))
     /\ \A i \in DOMAIN Languages(s) :
           Languages(s)[i] \in {<<"e", "nglish">>, <<"f", "rench">>,
                                <<"g", "erman">>, <<"j", "apanese">>}

\* a channeladd resumed after its reply finds a channel that another
\* command added meanwhile, in a whitelist of two channels
C20_Witness ==
  /\ ev.kind = "reply" /\ ev.command = "channeladd"
  /\ \E i \in DOMAIN ev.report : ev.report[i][1] = "already"
  /\ Len(Whitelist(ev.sess)) = 2

=============================================================================
